---------------------------- MODULE Spec2Model ----------------------------
(***************************************************************************)
(* A model of src/main.py, the Flipkart QWTT stock analysis tool: the      *)
(* report builder process_inventory_data, the cleaner remove_blank_rows    *)
(* and the Streamlit script around them (three uploaders, the Generate     *)
(* Report button, the cached st.session_state["result_df"] and the two     *)
(* report tabs).                                                           *)
(*                                                                         *)
(* Text is a TLA+ string, read character by character with SubSeq.  A      *)
(* cell of a DataFrame is Str(s), Num(n) or NaN.  Numbers are fixed point: *)
(* Num(n) is the number n / Scale, so that a fractional cost price and the *)
(* truncation of int() are both representable.                             *)
(***************************************************************************)
EXTENDS Integers, Sequences, FiniteSets, TLC

VARIABLES shipped_file, inventory_file, pm_file, session_state, status, cleaned, recleaned

vars == <<shipped_file, inventory_file, pm_file, session_state, status, cleaned, recleaned>>

(***************************************************************************)
(* Bounds of the model.                                                    *)
(***************************************************************************)
\* Num(n) stands for n / Scale.
Scale == 2
\* The records of one run's three input tables, taken together.
MaxRecords == 3
\* The rows of a table handed to remove_blank_rows on its own.
MaxTableRows == 4

(***************************************************************************)
(* Cells and text.                                                         *)
(***************************************************************************)
NaN == [nan |-> TRUE]

Str(s) == [s |-> s]

Num(n) == [n |-> n]

IsStr(c) == DOMAIN c = {"s"}

IsNum(c) == DOMAIN c = {"n"}

\* A whole number q as a cell.
Whole(q) == Num(q * Scale)

\* Python's int() on a non-negative number: the fraction is cut off.
Trunc(n) == (n \div Scale) * Scale

\* The product of two numbers.
Times(a, b) == (a * b) \div Scale

\* The character the source writes as a backtick (U+0060).  A TLA+ string
\* literal cannot hold that character, so the model writes it as "^".
Backtick == "^"

Whitespace == {" ", "\t", "\n", "\r", "\f"}

UpperAlpha == "ABCDEFGHIJKLMNOPQRSTUVWXYZ"

LowerAlpha == "abcdefghijklmnopqrstuvwxyz"

\* the lower-case letter of each upper-case letter
LowerTable == [c \in {SubSeq(UpperAlpha, i, i) : i \in 1..Len(UpperAlpha)} |-> LET i == CHOOSE j \in 1..Len(UpperAlpha) : SubSeq(UpperAlpha, j, j) = c IN SubSeq(LowerAlpha, i, i)]

LowerChar(c) == IF c \in DOMAIN LowerTable THEN LowerTable[c] ELSE c

RECURSIVE Lower(_)
\* str.lower()
Lower(s) == IF s = "" THEN "" ELSE LowerChar(Head(s)) \o Lower(Tail(s))

RECURSIVE RemoveChar(_, _)
\* str.replace(ch, "", regex=False) for a one-character ch
RemoveChar(s, ch) == IF s = "" THEN "" ELSE (IF Head(s) = ch THEN "" ELSE Head(s)) \o RemoveChar(Tail(s), ch)

RECURSIVE LStrip(_)
LStrip(s) == IF s # "" /\ Head(s) \in Whitespace THEN LStrip(Tail(s)) ELSE s

RECURSIVE RStrip(_)
RStrip(s) == IF s # "" /\ SubSeq(s, Len(s), Len(s)) \in Whitespace THEN RStrip(SubSeq(s, 1, Len(s) - 1)) ELSE s

\* str.strip()
Strip(s) == RStrip(LStrip(s))

\* needle in hay
Contains(hay, needle) == \E i \in 0..(Len(hay) - Len(needle)) : SubSeq(hay, i + 1, i + Len(needle)) = needle

\* re.match(r"^\s*$", s)
IsBlankText(s) == \A i \in 1..Len(s) : SubSeq(s, i, i) \in Whitespace

(***************************************************************************)
(* DataFrames: [columns |-> a sequence of names, rows |-> a sequence of    *)
(* functions from the names to cells].                                     *)
(***************************************************************************)
DataFrame(columns, rows) == [columns |-> columns, rows |-> rows]

\* df.empty
Empty(df) == Len(df.rows) = 0 \/ Len(df.columns) = 0

\* .replace(r"^\s*$", np.nan, regex=True) on one cell
ReplaceBlank(c) == IF IsStr(c) /\ IsBlankText(c.s) THEN NaN ELSE c

\* a row that dropna(how="any") keeps
NoNaN(row) == \A col \in DOMAIN row : row[col] # NaN

\* A remove_blank_rows that filters the whole frame, its last
\* row included, before putting the last row back.
remove_blank_rows_all(df) == IF Empty(df) THEN df ELSE LET replaced == [i \in 1..Len(df.rows) |-> [col \in DOMAIN df.rows[i] |-> ReplaceBlank(df.rows[i][col])]] IN DataFrame(df.columns, SelectSeq(replaced, NoNaN) \o <<df.rows[Len(df.rows)]>>)

\* A remove_blank_rows that drops rows with a missing field but
\* forgets the regex replacement of blank text.
remove_blank_rows_noregex(df) == IF Empty(df) THEN df ELSE DataFrame(df.columns, SelectSeq(SubSeq(df.rows, 1, Len(df.rows) - 1), NoNaN) \o <<df.rows[Len(df.rows)]>>)

\* A remove_blank_rows that takes a zero for a blank as well.
remove_blank_rows_zero(df) == IF Empty(df) THEN df ELSE DataFrame(df.columns, SelectSeq(SubSeq(df.rows, 1, Len(df.rows) - 1), LAMBDA row : \A col \in DOMAIN row : ReplaceBlank(row[col]) \notin {NaN, Num(0)}) \o <<df.rows[Len(df.rows)]>>)

remove_blank_rows(df) ==
    IF Empty(df) THEN df
    ELSE LET n == Len(df.rows)
             data_rows == [i \in 1..(n - 1) |-> [col \in DOMAIN df.rows[i] |-> ReplaceBlank(df.rows[i][col])]]
             kept == SelectSeq(data_rows, NoNaN)
         IN  DataFrame(df.columns, kept \o <<df.rows[n]>>)

(***************************************************************************)
(* process_inventory_data.  An order record is                             *)
(* [Marketplace, SKU, Quantity], an inventory record [sku, old_quantity];  *)
(* the two key fields are text and the two measures are cells.  The        *)
(* purchase master is any DataFrame: its headers are not fixed.            *)
(***************************************************************************)
\* The characters in code point order, as far as the keys drawn below use
\* them; "^" stands for the backtick, which also lies between "Z" and "a".
CodePoints == " 0123456789ABCDEFGHIJKLMNOPQRSTUVWXYZ^abcdefghijklmnopqrstuvwxyz"

\* the place of each character in CodePoints
OrdTable == [c \in {SubSeq(CodePoints, i, i) : i \in 1..Len(CodePoints)} |-> CHOOSE i \in 1..Len(CodePoints) : SubSeq(CodePoints, i, i) = c]

Ord(c) == OrdTable[c]

RECURSIVE StrLess(_, _)
\* a < b on Python strings
StrLess(a, b) == IF a = "" THEN b # "" ELSE IF b = "" THEN FALSE ELSE IF Head(a) = Head(b) THEN StrLess(Tail(a), Tail(b)) ELSE Ord(Head(a)) < Ord(Head(b))

RECURSIVE SortedKeys(_)
\* groupby's group keys: distinct, in ascending order (sort=True)
SortedKeys(S) == IF S = {} THEN <<>> ELSE LET least == CHOOSE x \in S : \A y \in S \ {x} : StrLess(x, y) IN <<least>> \o SortedKeys(S \ {least})

\* One cell's part in a sum: a number counts, a missing value is skipped.
Addend(c) == CASE IsNum(c) -> c.n [] c = NaN -> 0

RECURSIVE Sum(_)
\* Series.sum() (skipna=True)
Sum(cells) == IF cells = <<>> THEN 0 ELSE Addend(Head(cells)) + Sum(Tail(cells))

\* The filter that keeps every marketplace: the Flipkart test forgotten.
FlipkartOrders_unfiltered(shipped_df) == shipped_df

\* shipped_df[shipped_df["Marketplace"] == "Flipkart"]
FlipkartOrders(shipped_df) == SelectSeq(shipped_df, LAMBDA r : r.Marketplace = "Flipkart")

\* The group that holds its first record only.
CellsOf_first(records, keyfield, key, field) == LET hit == SelectSeq(records, LAMBDA r : r[keyfield] = key) IN <<hit[1][field]>>

\* the cells of one field over the records whose key field equals key
CellsOf(records, keyfield, key, field) == LET hit == SelectSeq(records, LAMBDA r : r[keyfield] = key) IN [i \in 1..Len(hit) |-> hit[i][field]]

\* shipped_df.groupby("SKU", as_index=False)["Quantity"].sum(), renamed
sales(shipped_df) ==
    LET orders == FlipkartOrders(shipped_df)
        keys == SortedKeys({orders[i].SKU : i \in 1..Len(orders)})
    IN  [i \in 1..Len(keys) |-> ("SKU" :> keys[i]) @@ ("Sales QTY" :> Sum(CellsOf(orders, "SKU", keys[i], "Quantity")))]

\* The inventory key left as it was uploaded: the backtick not removed.
InventorySku_raw(s) == s

\* inventory_df["sku"].astype(str).str.replace(BACKTICK, "", regex=False)
InventorySku(s) == RemoveChar(s, Backtick)

\* inventory_df.groupby("sku", as_index=False)["old_quantity"].sum(), renamed
inventory(inventory_df) ==
    LET records == [i \in 1..Len(inventory_df) |-> [sku |-> InventorySku(inventory_df[i].sku), old_quantity |-> inventory_df[i].old_quantity]]
        keys == SortedKeys({records[i].sku : i \in 1..Len(records)})
    IN  [i \in 1..Len(keys) |-> ("sku" :> Str(keys[i])) @@ ("Inventory QTY" :> Num(Sum(CellsOf(records, "sku", keys[i], "old_quantity"))))]

\* inventory["sku"].map(sales.set_index("SKU")["Sales QTY"]).fillna(0).astype(int)
SalesQty(agg, key) == IF \E i \in 1..Len(agg) : agg[i]["SKU"] = key THEN LET i == CHOOSE j \in 1..Len(agg) : agg[j]["SKU"] = key IN Num(Trunc(agg[i]["Sales QTY"])) ELSE Num(0)

\* Python's None, as the resolver returns it
None == "None"

\* next((c for c in columns if <test>), None), the test's verdict on each
\* column given as a sequence of booleans
FirstColumn(columns, hit) == IF \E i \in 1..Len(columns) : hit[i] THEN columns[CHOOSE i \in 1..Len(columns) : hit[i] /\ \A j \in 1..(i - 1) : ~hit[j]] ELSE None

\* Purchase Master column detection (lines 111-117): each role's column
\* or None, from the headers in their order
ColumnRoles(columns) ==
    LET lower == [i \in 1..Len(columns) |-> Lower(columns[i])]
        n == Len(columns)
    IN  [pm_sku |-> FirstColumn(columns, [i \in 1..n |-> Contains(lower[i], "easycomsku")]),
         pm_manager |-> FirstColumn(columns, [i \in 1..n |-> Contains(lower[i], "brand manager")]),
         pm_brand |-> FirstColumn(columns, [i \in 1..n |-> lower[i] = "brand"]),
         pm_product |-> FirstColumn(columns, [i \in 1..n |-> Contains(lower[i], "product")]),
         pm_fns |-> FirstColumn(columns, [i \in 1..n |-> Contains(lower[i], "fns")]),
         pm_vendor |-> FirstColumn(columns, [i \in 1..n |-> Contains(lower[i], "vendor")]),
         pm_cp |-> FirstColumn(columns, [i \in 1..n |-> lower[i] \in {"cp", "cost", "cost price"}])]

\* The master's key column and the enrichment columns the run adds, in the
\* order it adds them (lines 122-154), as <<output column, master
\* column>>: nothing without a SKU column, and otherwise the SKU column
\* and one for each role that has a column.
Resolved(columns) ==
    LET roles == ColumnRoles(columns)
        all == <<<<"sku", roles.pm_sku>>, <<"Manager", roles.pm_manager>>, <<"Brand", roles.pm_brand>>, <<"Product Name", roles.pm_product>>, <<"FNS", roles.pm_fns>>, <<"Vendor SKU", roles.pm_vendor>>, <<"CP", roles.pm_cp>>>>
    IN  IF roles.pm_sku = None THEN <<>> ELSE SelectSeq(all, LAMBDA r : r[2] # None)

\* The headers of a purchase master: one that resolves the SKU, Brand and
\* CP roles, one with no SKU header, one with no CP header, and one that
\* resolves every role.
MasterHeaders == {<<"EasycomSKU", "Brand", "CP">>, <<"SKU Code", "Brand", "CP">>, <<"EasycomSKU", "Brand", "MRP">>, <<"Easycomsku", "Brand Manager", "Brand", "Product Name", "FNS", "Vendor SKU", "Cost Price">>}

\* Resolved, worked out once for each header list a run can be given.
ResolvedTable == [columns \in MasterHeaders |-> Resolved(columns)]

\* .astype(str) on a key cell: text stays, a missing value becomes "nan"
AsTypeStr(c) == CASE IsStr(c) -> c.s [] c = NaN -> "nan"

\* pm_df[pm_sku].astype(str).str.strip(): the master's keys, row by row
MasterKeys(pm_df, pm_sku) == [i \in 1..Len(pm_df.rows) |-> Strip(AsTypeStr(pm_df.rows[i][pm_sku]))]

\* The master row a key maps to when the last duplicate wins.
pm_map_last(keys, key) == LET hits == {i \in 1..Len(keys) : keys[i] = key} IN IF hits = {} THEN 0 ELSE CHOOSE i \in hits : \A j \in hits : j <= i

\* drop_duplicates(subset=[pm_sku], keep="first").set_index(pm_sku): the
\* index of the master row a key maps to, 0 when there is none
pm_map(keys, key) == LET hits == {i \in 1..Len(keys) : keys[i] = key} IN IF hits = {} THEN 0 ELSE CHOOSE i \in hits : \A j \in hits : i <= j

\* sku_series = inventory["sku"].astype(str).str.strip()
sku_series(sku) == Strip(sku)

\* sku_series.map(pm_map[col]) for one inventory key
Mapped(pm_df, keys, col, sku) == LET i == pm_map(keys, sku_series(sku)) IN IF i = 0 THEN NaN ELSE pm_df.rows[i][col]

RECURSIVE ParseDigits(_, _)
ParseDigits(s, acc) == IF s = "" THEN acc ELSE ParseDigits(Tail(s), 10 * acc + (Ord(Head(s)) - Ord("0")))

\* pd.to_numeric(cell, errors="coerce"): a number stays, digits are read,
\* any other text becomes NaN
to_numeric(c) == IF IsStr(c) THEN (IF c.s # "" /\ \A i \in 1..Len(c.s) : SubSeq(c.s, i, i) \in {"0", "1", "2", "3", "4", "5", "6", "7", "8", "9"} THEN Whole(ParseDigits(c.s, 0)) ELSE NaN) ELSE c

\* .fillna(0)
fillna0(c) == IF c = NaN THEN Num(0) ELSE c

\* pd.api.types.is_numeric_dtype of a master column: a column with any
\* text in it, and any column of a table without rows, has dtype object
MasterColumnNumeric(pm_df, col) == Len(pm_df.rows) > 0 /\ \A i \in 1..Len(pm_df.rows) : ~IsStr(pm_df.rows[i][col])

\* The working table's columns before the sort.
WorkingColumns(resolved) == <<"sku", "Inventory QTY", "Sales QTY">> \o [i \in 1..(Len(resolved) - 1) |-> resolved[i + 1][1]]

\* One cell of an enrichment column (lines 135-154).
EnrichCell(pm_df, keys, role, sku) == IF role[1] = "CP" THEN fillna0(to_numeric(Mapped(pm_df, keys, role[2], sku))) ELSE Mapped(pm_df, keys, role[2], sku)

\* The working table's rows before the sort: the inventory aggregate with
\* Sales QTY (lines 101-106) and the resolved enrichment columns.
Enriched(shipped_df, inventory_df, pm_df, resolved) ==
    LET inv == inventory(inventory_df)
        agg == sales(shipped_df)
        keys == IF resolved = <<>> THEN <<>> ELSE MasterKeys(pm_df, resolved[1][2])
    IN  [i \in 1..Len(inv) |->
            [col \in {"Inventory QTY", "Sales QTY"} \cup {resolved[j][1] : j \in 1..Len(resolved)} \cup {"sku"} |->
                IF col \in {"sku", "Inventory QTY"} THEN inv[i][col]
                ELSE IF col = "Sales QTY" THEN SalesQty(agg, inv[i]["sku"].s)
                ELSE LET j == CHOOSE k \in 2..Len(resolved) : resolved[k][1] = col IN EnrichCell(pm_df, keys, resolved[j], inv[i]["sku"].s)]]

\* The columns of the working table whose dtype is numeric.
NumericColumns(pm_df, resolved) == {"Inventory QTY", "Sales QTY"} \cup {resolved[j][1] : j \in {k \in 2..Len(resolved) : resolved[k][1] = "CP" \/ MasterColumnNumeric(pm_df, resolved[k][2])}}

\* inventory.sort_values("Sales QTY"): ascending; the default quicksort is
\* not stable, so rows with equal Sales QTY come out in any order
sort_values(rows) == {[i \in 1..Len(rows) |-> rows[p[i]]] : p \in {q \in [1..Len(rows) -> 1..Len(rows)] : (\A a, b \in 1..Len(rows) : a # b => q[a] # q[b]) /\ \A a \in 1..(Len(rows) - 1) : rows[q[a]]["Sales QTY"].n <= rows[q[a + 1]]["Sales QTY"].n}}

ColumnOf(rows, col) == [i \in 1..Len(rows) |-> rows[i][col]]

\* totals (lines 162-168)
totals(rows, columns, numeric) == [col \in {columns[i] : i \in 1..Len(columns)} |-> IF col = "sku" THEN Str("Grand Total") ELSE IF col \in numeric THEN Num(Trunc(Sum(ColumnOf(rows, col)))) ELSE Str("")]

final_cols == <<"sku", "Manager", "Brand", "Product Name", "FNS", "Vendor SKU", "Inventory QTY", "Sales QTY", "CP">>

\* final_df with its new column CP As Per Qty (lines 178-181), from the
\* sorted rows with the totals appended
final_df(rows, columns) ==
    LET kept == SelectSeq(final_cols, LAMBDA c : \E i \in 1..Len(columns) : columns[i] = c)
    IN  DataFrame(kept \o <<"CP As Per Qty">>,
                  [i \in 1..Len(rows) |-> [col \in {kept[j] : j \in 1..Len(kept)} \cup {"CP As Per Qty"} |->
                      IF col = "CP As Per Qty" THEN Num(Times(rows[i]["CP"].n, rows[i]["Sales QTY"].n)) ELSE rows[i][col]]])

\* final_df["CP"] raises KeyError when no CP column was added (line 181)
NoCP(columns) == \A i \in 1..Len(columns) : columns[i] # "CP"

\* process_inventory_data raises on this master
Raises(pm_df) == NoCP(WorkingColumns(ResolvedTable[pm_df.columns]))

\* The reports process_inventory_data can return: none when it raises,
\* otherwise one for each order the sort can leave ties in.
process_inventory_data(shipped_df, inventory_df, pm_df) ==
    LET resolved == ResolvedTable[pm_df.columns]
        columns == WorkingColumns(resolved)
        numeric == NumericColumns(pm_df, resolved)
        rows == Enriched(shipped_df, inventory_df, pm_df, resolved)
    IN  IF NoCP(columns) THEN {}
        ELSE {final_df(sorted \o <<totals(sorted, columns, numeric)>>, columns) : sorted \in sort_values(rows)}

(***************************************************************************)
(* The script's state.                                                     *)
(***************************************************************************)
\* An uploader with no file in it.
NoFile == [kind |-> "none"]

\* What a tab shows before anything was rendered.
NotRendered == [rendered |-> FALSE]

Rendered(df) == [rendered |-> TRUE, df |-> df]

\* st.session_state without and with the key "result_df"
EmptySession == [keys |-> {}]

Session(df) == [keys |-> {"result_df"}, result_df |-> df]

\* An uploaded file the reader cannot parse.
Corrupt == [kind |-> "corrupt"]

\* An uploaded file and the table pd.read_csv / pd.read_excel makes of it.
File(df) == [kind |-> "table", df |-> df]

\* if shipped_file and inventory_file and pm_file
AllUploaded == shipped_file # NoFile /\ inventory_file # NoFile /\ pm_file # NoFile

\* pd.read_csv or pd.read_excel raises
ReadRaises == Corrupt \in {shipped_file, inventory_file, pm_file}

\* The section "Display Results" down to tab2, for the slot as it is at the
\* end of a script run.
Display(session) == IF "result_df" \in session.keys THEN Rendered(remove_blank_rows(session.result_df)) ELSE NotRendered

\* The button pressed with an uploader empty: a warning, nothing else.
GenerateWarning ==
    /\ ~AllUploaded
    /\ status' = "warning"
    /\ cleaned' = Display(session_state)
    /\ UNCHANGED <<shipped_file, inventory_file, pm_file, session_state, recleaned>>

\* The failing press that empties the slot.
GenerateRaises_clears ==
    /\ AllUploaded
    /\ ReadRaises \/ Raises(pm_file.df)
    /\ status' = "error"
    /\ session_state' = EmptySession
    /\ cleaned' = NotRendered
    /\ UNCHANGED <<shipped_file, inventory_file, pm_file, recleaned>>

\* The button pressed and a reader or process_inventory_data raises: the
\* script run ends there, before line 197 and before the display section.
GenerateRaises ==
    /\ AllUploaded
    /\ ReadRaises \/ Raises(pm_file.df)
    /\ status' = "error"
    /\ cleaned' = NotRendered
    /\ UNCHANGED <<shipped_file, inventory_file, pm_file, session_state, recleaned>>

\* The button pressed and the run returns: the slot is assigned the report
\* and the display section renders it.
GenerateSuccess ==
    /\ AllUploaded
    /\ ~ReadRaises
    /\ \E result_df \in process_inventory_data(shipped_file.df, inventory_file.df, pm_file.df) :
          /\ session_state' = Session(result_df)
          /\ cleaned' = Display(Session(result_df))
    /\ status' = "success"
    /\ UNCHANGED <<shipped_file, inventory_file, pm_file, recleaned>>

(***************************************************************************)
(* The inputs of process_inventory_data.                                   *)
(***************************************************************************)
OrderSkus == {"A", "a"}

InventorySkus == {"A", "^A", "A ", "B"}

MasterSkus == {"A", " A"}

OrderRecords == [Marketplace : {"Flipkart", "Amazon"}, SKU : OrderSkus, Quantity : {Whole(2)}]

InventoryRecords == [sku : InventorySkus, old_quantity : {NaN, Whole(1)}]

\* A master row: its first column holds k, its last column c (a cost of
\* one and a fraction, or text that is no number) and the others t.
MasterRow(columns, k, t, c) == [col \in {columns[j] : j \in 1..Len(columns)} |-> IF col = columns[1] THEN Str(k) ELSE IF col = columns[Len(columns)] THEN c ELSE t]

MasterRows(columns) == {MasterRow(columns, k, t, c) : k \in MasterSkus, t \in {Str("x"), NaN}, c \in {Num(Scale + 1), Str("n/a")}}

MasterTables(n) == UNION {{DataFrame(columns, rows) : rows \in [1..n -> MasterRows(columns)]} : columns \in MasterHeaders}

\* One run of process_inventory_data on every triple of tables with at most
\* MaxRecords records in all and at least one inventory record.
InitProcess ==
    /\ \E a \in 0..MaxRecords, b \in 1..MaxRecords, c \in 0..MaxRecords :
          /\ a + b + c <= MaxRecords
          /\ shipped_file \in {File(df) : df \in [1..a -> OrderRecords]}
          /\ inventory_file \in {File(df) : df \in [1..b -> InventoryRecords]}
          /\ pm_file \in {File(df) : df \in MasterTables(c)}
    /\ session_state = EmptySession
    /\ status = "idle"
    /\ cleaned = NotRendered
    /\ recleaned = NotRendered

NextProcess == GenerateRaises \/ GenerateSuccess

SpecProcess == InitProcess /\ [][NextProcess]_vars

(***************************************************************************)
(* The script: uploads and presses in any order.                           *)
(***************************************************************************)
ShippedFiles == {NoFile, Corrupt, File(<<>>), File(<<[Marketplace |-> "Flipkart", SKU |-> "A", Quantity |-> Whole(2)]>>)}

InventoryFiles == {NoFile, File(<<[sku |-> "A", old_quantity |-> Whole(1)]>>), File(<<[sku |-> "B", old_quantity |-> NaN]>>)}

MasterFiles == {NoFile, File(DataFrame(<<"EasycomSKU", "Brand", "CP">>, <<MasterRow(<<"EasycomSKU", "Brand", "CP">>, "A", Str("x"), Num(Scale + 1))>>)), File(DataFrame(<<"EasycomSKU", "Brand", "MRP">>, <<>>))}

Init ==
    /\ shipped_file = NoFile
    /\ inventory_file = NoFile
    /\ pm_file = NoFile
    /\ session_state = EmptySession
    /\ status = "idle"
    /\ cleaned = NotRendered
    /\ recleaned = NotRendered

\* A file put in or taken out of an uploader: the script reruns with the
\* button not pressed, so only the display section does anything.
Upload ==
    /\ \/ shipped_file' \in ShippedFiles \ {shipped_file} /\ UNCHANGED <<inventory_file, pm_file>>
       \/ inventory_file' \in InventoryFiles \ {inventory_file} /\ UNCHANGED <<shipped_file, pm_file>>
       \/ pm_file' \in MasterFiles \ {pm_file} /\ UNCHANGED <<shipped_file, inventory_file>>
    /\ status' = "idle"
    /\ cleaned' = Display(session_state)
    /\ UNCHANGED <<session_state, recleaned>>

Next == Upload \/ GenerateWarning \/ GenerateRaises \/ GenerateSuccess

Spec == Init /\ [][Next]_vars

(***************************************************************************)
(* remove_blank_rows on its own: any small table is put in the slot, the   *)
(* cleaned tab cleans it, and the cleaned table is cleaned once more.      *)
(***************************************************************************)
CleanColumns == <<"sku", "Brand">>

CleanCells == [sku |-> {Str("x"), Str("")}, Brand |-> {Str(" "), Str("y"), Num(0), NaN}]

CleanRows == {[col \in {"sku", "Brand"} |-> IF col = "sku" THEN a ELSE b] : a \in CleanCells.sku, b \in CleanCells.Brand}

InitCleaner ==
    /\ shipped_file = NoFile
    /\ inventory_file = NoFile
    /\ pm_file = NoFile
    /\ \E k \in 0..MaxTableRows : session_state \in {Session(DataFrame(CleanColumns, rows)) : rows \in [1..k -> CleanRows]}
    /\ status = "idle"
    /\ cleaned = NotRendered
    /\ recleaned = NotRendered

\* tab2: cleaned = remove_blank_rows(df)
CleanedTab ==
    /\ "result_df" \in session_state.keys
    /\ cleaned = NotRendered
    /\ cleaned' = Rendered(remove_blank_rows(session_state.result_df))
    /\ UNCHANGED <<shipped_file, inventory_file, pm_file, session_state, status, recleaned>>

\* the cleaner applied to its own output
CleanAgain ==
    /\ cleaned # NotRendered
    /\ recleaned = NotRendered
    /\ recleaned' = Rendered(remove_blank_rows(cleaned.df))
    /\ UNCHANGED <<shipped_file, inventory_file, pm_file, session_state, status, cleaned>>

NextCleaner == CleanedTab \/ CleanAgain

SpecCleaner == InitCleaner /\ [][NextCleaner]_vars

(***************************************************************************)
(* What the claims speak of.                                               *)
(***************************************************************************)
\* data_rows = df.iloc[:-1]
DataRows(df) == SubSeq(df.rows, 1, Len(df.rows) - 1)

\* totals = df.iloc[-1]
TotalRow(df) == df.rows[Len(df.rows)]

\* the sum of one field over records
SumField(records, field) == Sum([i \in 1..Len(records) |-> records[i][field]])

\* The key normalizer as section 4.1 of the specification words it: trim,
\* fold case, strip the stray character.
SpecNormalize(s) == Lower(Strip(RemoveChar(s, Backtick)))

\* a field that is missing, empty or whitespace-only
BlankCell(c) == c = NaN \/ (IsStr(c) /\ IsBlankText(c.s))

\* a row with no such field
CompleteRow(row) == \A col \in DOMAIN row : ~BlankCell(row[col])

\* The last press returned a report, which is in the slot.
Succeeded == status = "success"

\* the orders that count for a report row's key: Flipkart's, with that SKU
FlipkartOrdersOf(key) == SelectSeq(shipped_file.df, LAMBDA o : o.Marketplace = "Flipkart" /\ o.SKU = key)

\* the keys of the report's rows, in the report's order
ReportKeys == [i \in 1..Len(DataRows(session_state.result_df)) |-> DataRows(session_state.result_df)[i]["sku"].s]

NoDuplicates(seq) == \A i, j \in 1..Len(seq) : i # j => seq[i] # seq[j]

\* the inventory keys with the backtick removed
InventoryKeys == {RemoveChar(inventory_file.df[i].sku, Backtick) : i \in 1..Len(inventory_file.df)}

\* C1 as written: the Grand Total row's Inventory QTY is the sum of
\* old_quantity over all inventory records and its Sales QTY is the sum of
\* Quantity over all Flipkart orders, also when a sold SKU has no inventory
\* record.
C1_Original ==
    Succeeded =>
        /\ TotalRow(session_state.result_df)["Inventory QTY"] = Num(SumField(inventory_file.df, "old_quantity"))
        /\ TotalRow(session_state.result_df)["Sales QTY"] = Num(SumField(SelectSeq(shipped_file.df, LAMBDA o : o.Marketplace = "Flipkart"), "Quantity"))

\* C1 amended: the Grand Total row's Inventory QTY is the sum of
\* old_quantity over all inventory records (a blank one adds nothing), and
\* its Sales QTY is the sum of Quantity over the Flipkart orders whose SKU
\* is the key of a report row; Flipkart orders of a SKU with no inventory
\* record are not counted.
C1_TotalsConserved ==
    Succeeded =>
        /\ TotalRow(session_state.result_df)["Inventory QTY"] = Num(SumField(inventory_file.df, "old_quantity"))
        /\ TotalRow(session_state.result_df)["Sales QTY"] = Num(SumField(SelectSeq(shipped_file.df, LAMBDA o : o.Marketplace = "Flipkart" /\ \E i \in 1..Len(ReportKeys) : ReportKeys[i] = o.SKU), "Quantity"))

\* C1's case: a report whose inputs hold a Flipkart order of a SKU without
\* inventory beside one of a SKU with inventory, and two inventory records.
C1_Witness ==
    /\ Succeeded
    /\ \E i, j \in 1..Len(shipped_file.df) :
          /\ shipped_file.df[i].Marketplace = "Flipkart" /\ shipped_file.df[i].SKU \notin InventoryKeys
          /\ shipped_file.df[j].Marketplace = "Flipkart" /\ shipped_file.df[j].SKU \in InventoryKeys
    /\ TotalRow(session_state.result_df)["Sales QTY"].n > 0

\* C2 as written: every numeric field of the Grand Total row (Inventory
\* QTY, Sales QTY, CP, CP As Per Qty) is the sum of that field over the
\* other rows, and every other row has CP As Per Qty = CP x Sales QTY.
C2_TotalRowSums ==
    Succeeded =>
        /\ \A col \in {"Inventory QTY", "Sales QTY", "CP", "CP As Per Qty"} :
              TotalRow(session_state.result_df)[col] = Num(SumField(DataRows(session_state.result_df), col))
        /\ \A i \in 1..Len(DataRows(session_state.result_df)) :
              LET row == DataRows(session_state.result_df)[i] IN row["CP As Per Qty"].n * Scale = row["CP"].n * row["Sales QTY"].n

\* C3 as written: with a master that has no column for the SKU role, or
\* none for the CP role, the run does not fail: it returns a report that
\* ends in the Grand Total row and leaves out each unresolved role's column.
C3_NoFailure ==
    LET roles == ColumnRoles(pm_file.df.columns)
        omitted == IF roles.pm_sku = None THEN {"Manager", "Brand", "Product Name", "FNS", "Vendor SKU", "CP"} ELSE {"CP"}
    IN  status \in {"success", "error"} /\ (roles.pm_sku = None \/ roles.pm_cp = None) =>
            /\ Succeeded
            /\ TotalRow(session_state.result_df)["sku"] = Str("Grand Total")
            /\ \A i \in 1..Len(session_state.result_df.columns) : session_state.result_df.columns[i] \notin omitted

\* the master's SKU column, of a master that has one
MasterSkuColumn == ResolvedTable[pm_file.df.columns][1][2]

\* the master row the specification's normalizer gives a key: the first
\* whose normalized SKU is the normalized key, 0 when there is none
SpecMasterRow(key) == LET hits == {i \in 1..Len(pm_file.df.rows) : SpecNormalize(AsTypeStr(pm_file.df.rows[i][MasterSkuColumn])) = SpecNormalize(key)} IN IF hits = {} THEN 0 ELSE CHOOSE i \in hits : \A j \in hits : i <= j

TrimmedMasterRow(key) == LET hits == {i \in 1..Len(pm_file.df.rows) : Strip(AsTypeStr(pm_file.df.rows[i][MasterSkuColumn])) = Strip(key)} IN IF hits = {} THEN 0 ELSE CHOOSE i \in hits : \A j \in hits : i <= j

BlankQuantityKeys == {k \in InventoryKeys : \A i \in 1..Len(inventory_file.df) : RemoveChar(inventory_file.df[i].sku, Backtick) = k => inventory_file.df[i].old_quantity = NaN}

\* the report's row of a key
ReportRow(key) == DataRows(session_state.result_df)[CHOOSE i \in 1..Len(ReportKeys) : ReportKeys[i] = key]

\* a key has a row in the cleaned report
InCleaned(key) == \E i \in 1..Len(DataRows(cleaned.df)) : DataRows(cleaned.df)[i]["sku"] = Str(key)

\* C5 as written: a SKU whose old_quantity is blank keeps its row in the
\* detailed report with Inventory QTY 0, the cleaned report drops that row
\* and keeps the Grand Total row, and the total Inventory QTY is the sum of
\* the other records' quantities, whatever the orders and the master.
C5_Original ==
    Succeeded =>
        /\ \A k \in BlankQuantityKeys :
              /\ \E i \in 1..Len(ReportKeys) : ReportKeys[i] = k
              /\ ReportRow(k)["Inventory QTY"] = Num(0)
              /\ ~InCleaned(k)
        /\ TotalRow(cleaned.df) = TotalRow(session_state.result_df)
        /\ TotalRow(session_state.result_df)["Inventory QTY"] = Num(SumField(SelectSeq(inventory_file.df, LAMBDA r : r.old_quantity # NaN), "old_quantity"))

\* C5 amended: a SKU whose old_quantity is blank keeps its row in the
\* detailed report with Inventory QTY 0, and the total Inventory QTY is the
\* sum of the other records' quantities; the 0 is a value, not a blank, so
\* the cleaned report, which keeps the Grand Total row, drops that row only
\* when another field of it is missing, empty or whitespace-only, and keeps
\* it otherwise.
C5_BlankQuantity ==
    Succeeded =>
        /\ \A k \in BlankQuantityKeys :
              /\ \E i \in 1..Len(ReportKeys) : ReportKeys[i] = k
              /\ ReportRow(k)["Inventory QTY"] = Num(0)
              /\ InCleaned(k) <=> \A col \in DOMAIN ReportRow(k) \ {"Inventory QTY"} : ~BlankCell(ReportRow(k)[col])
        /\ TotalRow(cleaned.df) = TotalRow(session_state.result_df)
        /\ TotalRow(session_state.result_df)["Inventory QTY"] = Num(SumField(SelectSeq(inventory_file.df, LAMBDA r : r.old_quantity # NaN), "old_quantity"))

\* C5's case: a SKU with a blank old_quantity whose row the cleaned report
\* keeps, beside a SKU with a quantity.
C5_Witness ==
    /\ Succeeded
    /\ \E k \in BlankQuantityKeys : InCleaned(k)
    /\ TotalRow(session_state.result_df)["Inventory QTY"].n > 0

\* C6: remove_blank_rows is idempotent: cleaning a cleaned table gives the
\* cleaned table again, the same rows in the same order with the same
\* fields, for the table of the Grand Total row alone and the empty table
\* too.
C6_Idempotent == recleaned # NotRendered => recleaned.df = cleaned.df

\* C6's case: the second cleaning of a table the first cleaning took rows
\* from.
C6_Witness ==
    /\ recleaned # NotRendered
    /\ Len(cleaned.df.rows) < Len(session_state.result_df.rows)
    /\ Len(cleaned.df.rows) > 1

\* C7: remove_blank_rows keeps the last row of a table that has rows as it
\* is, whatever its fields, and the rows before it in the output are the
\* input's other rows that have no missing, empty or whitespace-only
\* field, in the input's order.
C7_TotalRowKept ==
    cleaned # NotRendered /\ Len(session_state.result_df.rows) > 0 =>
        /\ TotalRow(cleaned.df) = TotalRow(session_state.result_df)
        /\ DataRows(cleaned.df) = SelectSeq(DataRows(session_state.result_df), CompleteRow)

\* C7's case: a cleaned table whose last row has a blank field, with two
\* rows kept before it and one dropped.
C7_Witness ==
    /\ cleaned # NotRendered
    /\ Len(session_state.result_df.rows) > 0
    /\ ~CompleteRow(TotalRow(session_state.result_df))
    /\ Len(DataRows(cleaned.df)) >= 2
    /\ Len(cleaned.df.rows) < Len(session_state.result_df.rows)

\* C8: the report's rows other than the total are the distinct inventory
\* keys, one row each; a row's Sales QTY is the sum of Quantity over the
\* orders whose Marketplace is "Flipkart" and whose SKU is the row's key,
\* 0 when there is none; so no other marketplace adds to it and a SKU that
\* is only in the orders has no row.
C8_InventoryAnchored ==
    Succeeded =>
        /\ NoDuplicates(ReportKeys)
        /\ {ReportKeys[i] : i \in 1..Len(ReportKeys)} = InventoryKeys
        /\ \A i \in 1..Len(ReportKeys) :
              DataRows(session_state.result_df)[i]["Sales QTY"] = Num(SumField(FlipkartOrdersOf(ReportKeys[i]), "Quantity"))
        /\ \A i \in 1..Len(shipped_file.df) : shipped_file.df[i].SKU \notin InventoryKeys => \A j \in 1..Len(ReportKeys) : ReportKeys[j] # shipped_file.df[i].SKU

\* C8's case: a row whose key has a Flipkart order and an order of another
\* marketplace.
C8_Witness ==
    /\ Succeeded
    /\ \E j \in 1..Len(ReportKeys), a, b \in 1..Len(shipped_file.df) :
          /\ shipped_file.df[a].SKU = ReportKeys[j] /\ shipped_file.df[a].Marketplace = "Flipkart"
          /\ shipped_file.df[b].SKU = ReportKeys[j] /\ shipped_file.df[b].Marketplace # "Flipkart"

C10_SlotAtomic ==
    [][/\ IF status' = "success"
            THEN AllUploaded /\ ~ReadRaises /\ session_state' \in {Session(r) : r \in process_inventory_data(shipped_file.df, inventory_file.df, pm_file.df)}
            ELSE session_state' = session_state
       /\ cleaned' # NotRendered => cleaned' = Display(session_state')]_vars

\* C10's case: a press that failed with a report of an earlier run in the
\* slot.
C10_Witness == status = "error" /\ "result_df" \in session_state.keys /\ cleaned = NotRendered

=============================================================================
